---- MODULE Spec2Model ----
(***************************************************************************)
(* Model of the Jharkhand Tourism backend (src/main.py): the /chat         *)
(* endpoint with its greeted-user gate, itinerary builder, place lookup    *)
(* and Gemini fallback, and the two ledger proxy endpoints                 *)
(* /record-transaction and /verify-transaction.                            *)
(*                                                                         *)
(* Strings are sequences of tokens.  A chat message is a sequence of       *)
(* words, and the substring test `w in message` is membership of the word. *)
(* A reply is a sequence of tokens in which "\n" is a line break.          *)
(***************************************************************************)
EXTENDS Integers, Sequences, FiniteSets, TLC

VARIABLES greeted_users, places, pc, held, last, chatted, greetings

vars == <<greeted_users, places, pc, held, last, chatted, greetings>>

(***************************************************************************)
(* Bounds                                                                  *)
(***************************************************************************)
NumReq == 2          \* requests the event loop handles concurrently
MaxMsgLen == 4       \* words in a chat message (exhaustive chat inputs)
MaxTextLen == 4      \* tokens in a language-model response text
MaxSales == 2        \* records in a ledger sales list

Reqs == 1..NumReq

RECURSIVE SeqsUpTo(_, _)
SeqsUpTo(S, n) ==
  IF n = 0 THEN {<<>>}
  ELSE LET shorter == SeqsUpTo(S, n - 1)
       IN shorter \cup {Append(s, x) : s \in {t \in shorter : Len(t) = n - 1}, x \in S}

(***************************************************************************)
(* Inputs                                                                  *)
(***************************************************************************)
Users == {"default", "u1"}

NumberWords == {"0", "5"}
Words == {"plan", "day", "itinerary", "nature", "wildlife", "betla"} \cup NumberWords
Messages == SeqsUpTo(Words, MaxMsgLen)
SampleMessages ==
  { <<"hello">>, <<"Betla">>, <<"itinerary">>,
    <<"plan", "5", "day", "wildlife">>, <<"plan", "0", "day">> }

\* str.lower() of one word
lower(w) == CASE w = "Betla" -> "betla" [] OTHER -> w

\* int(days_match.group(1))
ParseInt(w) == CASE w = "0" -> 0 [] w = "5" -> 5

\* f"{i+1}"
FormatInt(n) ==
  CASE n = 0 -> "0" [] n = 1 -> "1" [] n = 2 -> "2" [] n = 3 -> "3"
    [] n = 4 -> "4" [] n = 5 -> "5" [] n = 6 -> "6" [] OTHER -> "many"

\* str(transaction.price) of a whole-valued float
FormatFloat(x) == <<FormatInt(x), ".0">>

\* str.capitalize()
capitalize(w) ==
  CASE w = "netarhat" -> "Netarhat" [] w = "patratu" -> "Patratu"
    [] w = "hundru" -> "Hundru" [] w = "betla" -> "Betla"
    [] w = "deoghar" -> "Deoghar" [] OTHER -> w

(***************************************************************************)
(* Knowledge base.  A dict is a sequence of [key, value] items in          *)
(* insertion order with distinct keys.                                     *)
(***************************************************************************)
interest_map ==
  << [key |-> "nature", value |-> <<"netarhat", "patratu", "hundru">>],
     [key |-> "wildlife", value |-> <<"betla">>],
     [key |-> "pilgrimage", value |-> <<"deoghar">>] >>

FullInfo(p) ==
  [description |-> <<"description of", p>>,
   best_time |-> <<"best time of", p>>,
   activities |-> <<"activities of", p>>]

\* places.json as loaded: complete, with a record that lacks fields, or absent
KnowledgeBases ==
  { << [key |-> "netarhat", value |-> FullInfo("netarhat")],
       [key |-> "betla", value |-> FullInfo("betla")] >>,
    << [key |-> "betla", value |-> [best_time |-> <<"best time of", "betla">>]] >>,
    << >> }

Keys(d) == {d[i].key : i \in DOMAIN d}

\* dict.get(k, default) of a dict of items
DictGet(d, k, default) ==
  IF k \in Keys(d)
    THEN d[CHOOSE i \in DOMAIN d : d[i].key = k].value
    ELSE default

\* info.get(field, 'N/A') of a place record
InfoGet(info, f) == IF f \in DOMAIN info THEN info[f] ELSE <<"N/A">>

EmptyInfo == [x \in {} |-> <<>>]

\* w in user_message
Contains(m, w) == \E i \in DOMAIN m : m[i] = w

RECURSIVE Concat(_)
Concat(ss) == IF ss = <<>> THEN <<>> ELSE Head(ss) \o Concat(Tail(ss))

RECURSIVE Join(_, _)
\* sep.join(parts)
Join(sep, parts) ==
  IF parts = <<>> THEN <<>>
  ELSE IF Len(parts) = 1 THEN Head(parts)
  ELSE Head(parts) \o sep \o Join(sep, Tail(parts))

\* dict[k] = v
DictSet(d, k, v) ==
  IF k \in Keys(d)
    THEN [i \in DOMAIN d |-> IF d[i].key = k THEN [key |-> k, value |-> v] ELSE d[i]]
    ELSE Append(d, [key |-> k, value |-> v])

\* list(d.keys()) and list(d.values())
DictKeys(d) == [i \in DOMAIN d |-> d[i].key]
DictValues(d) == [i \in DOMAIN d |-> d[i].value]

(***************************************************************************)
(* Responses                                                               *)
(***************************************************************************)
Greeting == <<"Hello! Welcome to Jharkhand Tourism Chatbot. How can I help you today?">>
NoPlacesReply == <<"I couldn't find any places matching your interests.">>
OutOfContextReply ==
  <<"I can only answer questions about Jharkhand tourism. How can I help you with your trip?">>
CouldNotCompleteReply ==
  <<"I couldn't complete the response. Please try rephrasing your question.">>
GeminiErrorReply == <<"Sorry, an error occurred while contacting the AI model.">>

ReplyOf(reply) == [status |-> 200, reply |-> reply]
HTTPException(status, detail) == [status |-> status, detail |-> detail]
\* what the framework answers when a handler raises anything but HTTPException
UnhandledError == [status |-> 500, detail |-> <<"Internal Server Error">>]

(***************************************************************************)
(* chat: the greeted-user gate (lines 141-143)                             *)
(***************************************************************************)
\* the gate with its test dropped: every call is greeted
not_greeted_always(greeted, user_id) == TRUE

not_greeted(greeted, user_id) == user_id \notin greeted

\* the gate without its insert
gate_add_forgotten(greeted, user_id) == greeted

\* the gate assigning the set instead of adding to it
gate_add_overwrites(greeted, user_id) == {user_id}

gate_add(greeted, user_id) == greeted \cup {user_id}

(***************************************************************************)
(* chat: itinerary (lines 146-164)                                         *)
(***************************************************************************)
\* "itinerary" in user_message or re.search(r"plan.*day", user_message)
itinerary_intent(m) ==
  \/ Contains(m, "itinerary")
  \/ \E i, j \in DOMAIN m : i < j /\ m[i] = "plan" /\ m[j] = "day"

\* re.search(r"(\d+)\s*day", user_message): the leftmost number followed by "day"
DayMatches(m) == {i \in DOMAIN m : m[i] \in NumberWords /\ i < Len(m) /\ m[i + 1] = "day"}

extract_days(m) ==
  IF DayMatches(m) # {}
    THEN ParseInt(m[CHOOSE i \in DayMatches(m) : \A j \in DayMatches(m) : i <= j])
    ELSE 3

RECURSIVE FilterKeys(_, _)
\* [i for i in interest_map if i in user_message]
FilterKeys(d, m) ==
  IF d = <<>> THEN <<>>
  ELSE (IF Contains(m, Head(d).key) THEN <<Head(d).key>> ELSE <<>>) \o FilterKeys(Tail(d), m)

extract_interests(m) ==
  IF FilterKeys(interest_map, m) # <<>> THEN FilterKeys(interest_map, m) ELSE <<"nature">>

\* [p for i in interests for p in interest_map.get(i, [])] or list(places.keys())
select_places(interests, kb) ==
  LET named == Concat([i \in DOMAIN interests |-> DictGet(interest_map, interests[i], <<>>)])
  IN IF named # <<>> THEN named ELSE DictKeys(kb)

\* the day index clamped to the list instead of wrapped
place_for_day_clamped(selected, i) ==
  selected[(IF i < Len(selected) THEN i ELSE Len(selected) - 1) + 1]

\* selected_places[i % len(selected_places)]
place_for_day(selected, i) == selected[(i % Len(selected)) + 1]

\* the value stored for a day; "PIN" stands for the pin emoji that opens it
day_block(place_name, info) ==
  <<"PIN", capitalize(place_name), "-">> \o InfoGet(info, "description")
    \o <<"\n", "Best time:">> \o InfoGet(info, "best_time")
    \o <<"\n", "Activities:">> \o InfoGet(info, "activities")

RECURSIVE build_plan(_, _, _, _, _)
\* for i in range(days): plan[f"Day {i+1}"] = ...
build_plan(plan, i, days, selected, kb) ==
  IF i >= days THEN plan
  ELSE LET place_name == place_for_day(selected, i)
           info == DictGet(kb, place_name, EmptyInfo)
       IN build_plan(DictSet(plan, <<"Day", FormatInt(i + 1)>>, day_block(place_name, info)),
                     i + 1, days, selected, kb)

\* "\n\n".join(plan.values())
render_plan(plan) == Join(<<"\n", "\n">>, DictValues(plan))

itinerary(m, kb) ==
  LET days == extract_days(m)
      selected == select_places(extract_interests(m), kb)
  IN IF selected = <<>>
       THEN ReplyOf(NoPlacesReply)
       ELSE ReplyOf(render_plan(build_plan(<<>>, 0, days, selected, kb)))

(***************************************************************************)
(* chat: direct place lookup (lines 166-168)                               *)
(***************************************************************************)
PlaceMatches(m, kb) == {i \in DOMAIN kb : Contains(m, kb[i].key)}

\* info['description'] raises KeyError when the record has no description
place_lookup(m, kb) ==
  LET i == CHOOSE k \in PlaceMatches(m, kb) : \A j \in PlaceMatches(m, kb) : k <= j
  IN IF "description" \in DOMAIN kb[i].value
       THEN [next |-> "return",
             resp |-> ReplyOf(<<capitalize(kb[i].key), ":">> \o kb[i].value.description)]
       ELSE [next |-> "raise", resp |-> UnhandledError]

(***************************************************************************)
(* chat up to its first await or return (lines 137-172)                    *)
(***************************************************************************)
chat_sync(greeted, kb, user_id, message) ==
  LET user_message == [i \in DOMAIN message |-> lower(message[i])]
  IN IF not_greeted(greeted, user_id)
       THEN [greeted |-> gate_add(greeted, user_id), next |-> "return",
             resp |-> ReplyOf(Greeting)]
     ELSE IF itinerary_intent(user_message)
       THEN [greeted |-> greeted, next |-> "return", resp |-> itinerary(user_message, kb)]
     ELSE IF PlaceMatches(user_message, kb) # {}
       THEN [greeted |-> greeted] @@ place_lookup(user_message, kb)
     ELSE [greeted |-> greeted, next |-> "await", resp |-> UnhandledError]

(***************************************************************************)
(* query_gemini (lines 97-127)                                             *)
(***************************************************************************)
TextTokens == {" ", "\n", "a", "OUT_OF_CONTEXT"}
Texts == SeqsUpTo(TextTokens, MaxTextLen)
FinishReasons == {"STOP", "MAX_TOKENS", "SAFETY"}

\* what generate_content_async and the accessors on its response can do
GeminiOutcomes ==
  {[kind |-> "raise"]}
    \cup [kind : {"response"}, finish_reason : FinishReasons, text : Texts]
SampleGeminiOutcomes ==
  { [kind |-> "raise"],
    [kind |-> "response", finish_reason |-> "STOP", text |-> <<"a", "\n", "\n", "a">>],
    [kind |-> "response", finish_reason |-> "STOP", text |-> <<"OUT_OF_CONTEXT">>],
    [kind |-> "response", finish_reason |-> "MAX_TOKENS", text |-> <<"a">>] }

IsSpace(c) == c \in {" ", "\n"}

RECURSIVE lstrip(_)
lstrip(t) == IF t # <<>> /\ IsSpace(Head(t)) THEN lstrip(Tail(t)) ELSE t

RECURSIVE rstrip(_)
rstrip(t) ==
  IF t # <<>> /\ IsSpace(t[Len(t)]) THEN rstrip(SubSeq(t, 1, Len(t) - 1)) ELSE t

\* str.strip()
strip(t) == rstrip(lstrip(t))

RECURSIVE collapse_newlines(_)
\* re.sub(r"\n{2,}", "\n", reply)
collapse_newlines(t) ==
  IF Len(t) < 2 THEN t
  ELSE IF t[1] = "\n" /\ t[2] = "\n" THEN collapse_newlines(Tail(t))
  ELSE <<Head(t)>> \o collapse_newlines(Tail(t))

\* the finish reason ignored: partial text is returned
gemini_reply_partial(finish_reason, reply) ==
  IF reply = <<"OUT_OF_CONTEXT">> THEN OutOfContextReply ELSE collapse_newlines(reply)

gemini_reply(finish_reason, reply) ==
  IF reply = <<"OUT_OF_CONTEXT">> THEN OutOfContextReply
  ELSE IF finish_reason = "STOP" THEN collapse_newlines(reply)
  ELSE CouldNotCompleteReply

query_gemini(outcome) ==
  IF outcome.kind = "raise"
    THEN GeminiErrorReply
    ELSE gemini_reply(outcome.finish_reason, strip(outcome.text))

(***************************************************************************)
(* The ledger microservice as the proxy sees it: one HTTP exchange.        *)
(* A body is its text; a body that is JSON also has the document it parses *)
(* to.                                                                     *)
(***************************************************************************)
TxIds == {"abc", "xyz"}
StatusCodes == {200, 201, 404, 500}

\* class SaleReceipt (lines 89-93)
SaleReceiptFields == {"productID", "price", "timestamp", "txID"}

Receipt(tx_id) ==
  [type |-> "dict",
   fields |-> [productID |-> "1", price |-> "5.0", timestamp |-> "t1", txID |-> tx_id]]

\* the elements a sales array may hold: receipts, records lacking receipt fields
\* (with and without txID), a bare string
SaleItems ==
  { Receipt("abc"), Receipt("xyz"),
    [type |-> "dict", fields |-> [txID |-> "abc"]],
    [type |-> "dict", fields |-> [price |-> "5.0"]],
    [type |-> "str", fields |-> [value |-> "abc"]] }

\* a receipt carrying a field SaleReceipt does not declare
ReceiptWithExtra ==
  [type |-> "dict",
   fields |-> [productID |-> "1", price |-> "5.0", timestamp |-> "t1", txID |-> "abc",
               blockNumber |-> "7"]]

JsonDocs ==
  {Receipt("abc"), ReceiptWithExtra, [type |-> "dict", fields |-> [error |-> "e"]]}
    \cup {[type |-> "array", items |-> s] : s \in SeqsUpTo(SaleItems, MaxSales)}

Bodies == {[text |-> "<html>"]} \cup [text : {"json"}, doc : JsonDocs]

UpstreamOutcomes ==
  {[kind |-> "request_error"]}
    \cup [kind : {"response"}, status_code : StatusCodes, body : Bodies]

SampleUpstreamOutcomes ==
  { [kind |-> "request_error"],
    [kind |-> "response", status_code |-> 500, body |-> [text |-> "<html>"]],
    [kind |-> "response", status_code |-> 200, body |-> [text |-> "<html>"]],
    [kind |-> "response", status_code |-> 200,
     body |-> [text |-> "json", doc |-> Receipt("abc")]],
    [kind |-> "response", status_code |-> 200,
     body |-> [text |-> "json",
               doc |-> [type |-> "array", items |-> <<Receipt("abc")>>]]] }

\* Response.is_success, which raise_for_status tests
is_success(status_code) == status_code \in 200..299

\* whether Response.json() can decode the body
is_json(body) == "doc" \in DOMAIN body

\* sale.get("txID"): None when the record has no such key
sale_get(sale, k) == IF k \in DOMAIN sale.fields THEN sale.fields[k] ELSE "None"

Raise(exc) == [raised |-> exc]
Return(v) == [raised |-> "none", value |-> v]

\* response_model=SaleReceipt (lines 187, 219): the handler's return value is
\* validated against SaleReceipt and serialized with the declared fields only; a
\* value that does not validate is the framework's 500
serialize_receipt(value) ==
  IF value.type = "dict" /\ SaleReceiptFields \subseteq DOMAIN value.fields
    THEN [status |-> 200,
          json |-> [type |-> "dict",
                    fields |-> [f \in SaleReceiptFields |-> value.fields[f]]]]
    ELSE UnhandledError

(***************************************************************************)
(* record_transaction (lines 188-216)                                      *)
(***************************************************************************)
\* the try block without raise_for_status
record_try_unchecked(upstream) ==
  IF upstream.kind = "request_error" THEN Raise("RequestError")
  ELSE IF ~is_json(upstream.body) THEN Raise("JSONDecodeError")
  ELSE Return(upstream.body.doc)

\* the try block after the POST was awaited (lines 201-209)
record_try(upstream) ==
  IF upstream.kind = "request_error" THEN Raise("RequestError")
  ELSE IF ~is_success(upstream.status_code) THEN Raise("HTTPStatusError")
  ELSE IF ~is_json(upstream.body) THEN Raise("JSONDecodeError")
  ELSE Return(upstream.body.doc)

\* the except clauses (lines 211-216)
record_except(exc) ==
  IF exc = "RequestError"
    THEN HTTPException(503, <<"The blockchain service is unavailable.">>)
    ELSE HTTPException(500, <<"An internal error occurred.">>)

record_response(upstream) ==
  LET t == record_try(upstream)
  IN IF t.raised = "none" THEN serialize_receipt(t.value)
     ELSE record_except(t.raised)

(***************************************************************************)
(* verify_transaction (lines 220-275)                                      *)
(***************************************************************************)
RECURSIVE scan_sales(_, _)
\* for sale in sales: if sale.get("txID") == tx_id: return sale   (lines 246-255)
scan_sales(sales, tx_id) ==
  IF sales = <<>> THEN Raise("HTTPException404")
  ELSE IF Head(sales).type # "dict" THEN Raise("AttributeError")
  ELSE IF sale_get(Head(sales), "txID") = tx_id THEN Return(Head(sales))
  ELSE scan_sales(Tail(sales), tx_id)

\* the try block after the GET was awaited (lines 231-255)
verify_try(upstream, tx_id) ==
  IF upstream.kind = "request_error" THEN Raise("RequestError")
  ELSE IF ~is_success(upstream.status_code) THEN Raise("HTTPStatusError")
  ELSE IF ~is_json(upstream.body) THEN Raise("JSONDecodeError")
  ELSE IF upstream.body.doc.type # "array" THEN Raise("HTTPException500")
  ELSE scan_sales(upstream.body.doc.items, tx_id)

\* the except clauses without the one for HTTPStatusError
verify_except_no_status(exc, upstream) ==
  IF exc = "RequestError"
    THEN HTTPException(503, <<"The blockchain service is unavailable.">>)
  ELSE IF exc = "JSONDecodeError"
    THEN HTTPException(500, <<"Received an invalid (non-JSON) response from the blockchain service.">>)
  ELSE HTTPException(500, <<"An internal error occurred during verification.">>)

\* the except clauses in order (lines 257-275); httpx.HTTPStatusError is no
\* httpx.RequestError, and fastapi's HTTPException is an Exception
verify_except(exc, upstream) ==
  IF exc = "RequestError"
    THEN HTTPException(503, <<"The blockchain service is unavailable.">>)
  ELSE IF exc = "HTTPStatusError"
    THEN HTTPException(502, <<"An error occurred in the blockchain service:", upstream.body.text>>)
  ELSE IF exc = "JSONDecodeError"
    THEN HTTPException(500, <<"Received an invalid (non-JSON) response from the blockchain service.">>)
  ELSE HTTPException(500, <<"An internal error occurred during verification.">>)

verify_response(upstream, tx_id) ==
  LET t == verify_try(upstream, tx_id)
  IN IF t.raised = "none" THEN serialize_receipt(t.value)
     ELSE verify_except(t.raised, upstream)

(***************************************************************************)
(* State machine.  pc[r] is where request r stands: "idle", or suspended   *)
(* at an await ("gemini", "post", "get").  last is the response most       *)
(* recently sent with the request it answers; chatted and greetings are    *)
(* history: the user ids that called chat, and the greetings each got.     *)
(***************************************************************************)
NoRequest == [kind |-> "none"]

Init ==
  /\ greeted_users = {}
  /\ places \in KnowledgeBases
  /\ pc = [r \in Reqs |-> "idle"]
  /\ held = [r \in Reqs |-> NoRequest]
  /\ last = NoRequest
  /\ chatted = {}
  /\ greetings = [u \in Users |-> 0]

\* any state in which no request is being handled
InitAny ==
  /\ greeted_users \in SUBSET Users
  /\ places \in KnowledgeBases
  /\ pc = [r \in Reqs |-> "idle"]
  /\ held = [r \in Reqs |-> NoRequest]
  /\ last = NoRequest
  /\ chatted = greeted_users
  /\ greetings = [u \in Users |-> IF u \in greeted_users THEN 1 ELSE 0]

Count(n) == IF n < 2 THEN n + 1 ELSE n

\* POST /chat: from the request to the first await or the response
Chat(r, user_id, message) ==
  LET c == chat_sync(greeted_users, places, user_id, message)
      first == user_id \notin chatted
  IN /\ pc[r] = "idle"
     /\ greeted_users' = c.greeted
     /\ chatted' = chatted \cup {user_id}
     /\ IF c.next = "await"
          THEN /\ pc' = [pc EXCEPT ![r] = "gemini"]
               /\ held' = [held EXCEPT ![r] = [kind |-> "chat", user_id |-> user_id,
                                               message |-> message, first |-> first]]
               /\ UNCHANGED <<last, greetings>>
          ELSE /\ last' = [kind |-> "chat", user_id |-> user_id, message |-> message,
                           first |-> first, gemini |-> [kind |-> "not_called"],
                           resp |-> c.resp]
               /\ greetings' = IF c.resp = ReplyOf(Greeting)
                                 THEN [greetings EXCEPT ![user_id] = Count(@)]
                                 ELSE greetings
               /\ UNCHANGED <<pc, held>>
     /\ UNCHANGED places

\* query_gemini resumes and chat returns its reply (lines 107-127, 172-173);
\* query_gemini catches every Exception, so chat's own except clause never runs
ChatReturn(r, outcome) ==
  LET reply == query_gemini(outcome)
  IN /\ pc[r] = "gemini"
     /\ last' = [kind |-> "chat", user_id |-> held[r].user_id, message |-> held[r].message,
                 first |-> held[r].first, gemini |-> outcome, resp |-> ReplyOf(reply)]
     /\ greetings' = IF reply = Greeting
                       THEN [greetings EXCEPT ![held[r].user_id] = Count(@)]
                       ELSE greetings
     /\ pc' = [pc EXCEPT ![r] = "idle"]
     /\ held' = [held EXCEPT ![r] = NoRequest]
     /\ UNCHANGED <<greeted_users, places, chatted>>

\* POST /record-transaction up to the awaited POST (lines 192-205)
RecordTransaction(r, product_id, price) ==
  /\ pc[r] = "idle"
  /\ pc' = [pc EXCEPT ![r] = "post"]
  /\ held' = [held EXCEPT ![r] =
                [kind |-> "record",
                 payload |-> [product_id |-> FormatInt(product_id), price |-> FormatFloat(price)],
                 posts |-> 1]]
  /\ UNCHANGED <<greeted_users, places, last, chatted, greetings>>

\* the POST completes (lines 207-216)
RecordTransactionReturn(r, upstream) ==
  /\ pc[r] = "post"
  /\ last' = [kind |-> "record", payload |-> held[r].payload, posts |-> held[r].posts,
              upstream |-> upstream, resp |-> record_response(upstream)]
  /\ pc' = [pc EXCEPT ![r] = "idle"]
  /\ held' = [held EXCEPT ![r] = NoRequest]
  /\ UNCHANGED <<greeted_users, places, chatted, greetings>>

\* GET /verify-transaction up to the awaited GET (lines 224-231)
VerifyTransaction(r, product_id, tx_id) ==
  /\ pc[r] = "idle"
  /\ pc' = [pc EXCEPT ![r] = "get"]
  /\ held' = [held EXCEPT ![r] = [kind |-> "verify", product_id |-> product_id, tx_id |-> tx_id]]
  /\ UNCHANGED <<greeted_users, places, last, chatted, greetings>>

\* the GET completes (lines 233-275)
VerifyTransactionReturn(r, upstream) ==
  /\ pc[r] = "get"
  /\ last' = [kind |-> "verify", product_id |-> held[r].product_id, tx_id |-> held[r].tx_id,
              upstream |-> upstream, resp |-> verify_response(upstream, held[r].tx_id)]
  /\ pc' = [pc EXCEPT ![r] = "idle"]
  /\ held' = [held EXCEPT ![r] = NoRequest]
  /\ UNCHANGED <<greeted_users, places, chatted, greetings>>

\* GET /products, run to completion in a worker thread (lines 179-185)
GetProducts(store_ok) ==
  /\ last' = [kind |-> "products",
              resp |-> IF store_ok THEN [status |-> 200, json |-> <<"products">>]
                       ELSE HTTPException(500, <<"An unexpected error occurred.">>)]
  /\ UNCHANGED <<greeted_users, places, pc, held, chatted, greetings>>

\* POST /log-activity, run to completion in a worker thread (lines 278-287)
LogActivity(user_id, store_ok) ==
  /\ last' = [kind |-> "log", user_id |-> user_id,
              resp |-> IF store_ok THEN [status |-> 200, json |-> <<"success", "Activity logged.">>]
                       ELSE HTTPException(500, <<"Failed to log activity.">>)]
  /\ UNCHANGED <<greeted_users, places, pc, held, chatted, greetings>>

ProductIds == {"1"}

Next ==
  \/ \E r \in Reqs, u \in Users, m \in SampleMessages : Chat(r, u, m)
  \/ \E r \in Reqs, o \in SampleGeminiOutcomes : ChatReturn(r, o)
  \/ \E r \in Reqs : RecordTransaction(r, 1, 5)
  \/ \E r \in Reqs, up \in SampleUpstreamOutcomes : RecordTransactionReturn(r, up)
  \/ \E r \in Reqs, p \in ProductIds, t \in TxIds : VerifyTransaction(r, p, t)
  \/ \E r \in Reqs, up \in SampleUpstreamOutcomes : VerifyTransactionReturn(r, up)
  \/ \E ok \in BOOLEAN : GetProducts(ok)
  \/ \E u \in Users \cup {"guest"}, ok \in BOOLEAN : LogActivity(u, ok)

Spec == Init /\ [][Next]_vars

\* one request handled from a state with none in flight
Fresh == last = NoRequest /\ \A r \in Reqs : pc[r] = "idle"

\* chat over every message of the bound
NextChat ==
  \/ Fresh /\ \E u \in Users, m \in Messages : Chat(1, u, m)
  \/ \E o \in SampleGeminiOutcomes : ChatReturn(1, o)

\* nobody greeted yet, or everybody
InitChat == InitAny /\ greeted_users \in {{}, Users}

SpecChat == InitChat /\ [][NextChat]_vars

\* chat's fallback over every language-model outcome of the bound
NextGemini ==
  \/ Fresh /\ \E u \in Users, m \in SampleMessages : Chat(1, u, m)
  \/ \E o \in GeminiOutcomes : ChatReturn(1, o)

SpecGemini == InitAny /\ [][NextGemini]_vars

\* the ledger proxies over every upstream outcome of the bound
NextLedger ==
  \/ Fresh /\ RecordTransaction(1, 1, 5)
  \/ \E up \in UpstreamOutcomes : RecordTransactionReturn(1, up)
  \/ Fresh /\ \E p \in ProductIds, t \in TxIds : VerifyTransaction(1, p, t)
  \/ \E up \in UpstreamOutcomes : VerifyTransactionReturn(1, up)

SpecLedger == InitAny /\ [][NextLedger]_vars

(***************************************************************************)
(* Properties                                                              *)
(***************************************************************************)
Unavailable503 == [status |-> 503, detail |-> <<"The blockchain service is unavailable.">>]
VerifyInternal500 ==
  [status |-> 500, detail |-> <<"An internal error occurred during verification.">>]
VerifyNotJson500 ==
  [status |-> 500,
   detail |-> <<"Received an invalid (non-JSON) response from the blockchain service.">>]
RecordInternal500 == [status |-> 500, detail |-> <<"An internal error occurred.">>]
NotFound404 ==
  [status |-> 404, detail |-> <<"Transaction ID not found for the given product.">>]

Answered2xx(up) == up.kind = "response" /\ up.status_code >= 200 /\ up.status_code < 300

\* the ledger answered 2xx with a JSON array of records, none with the requested txID
NoRecordMatches(up, tx_id) ==
  /\ Answered2xx(up)
  /\ "doc" \in DOMAIN up.body
  /\ up.body.doc.type = "array"
  /\ \A i \in DOMAIN up.body.doc.items :
       LET item == up.body.doc.items[i]
       IN /\ item.type = "dict"
          /\ ("txID" \in DOMAIN item.fields => item.fields.txID # tx_id)

\* C1: verify_transaction answers a 2xx JSON array holding no record with the
\* requested txID with the "not found" condition (404), an outcome distinct from
\* every failure condition (503, 502, 500).
C1_NotFoundIsDistinct ==
  (last.kind = "verify" /\ NoRecordMatches(last.upstream, last.tx_id))
    => last.resp = NotFound404

IsReceipt(doc) ==
  doc.type = "dict" /\ {"productID", "price", "timestamp", "txID"} \subseteq DOMAIN doc.fields

\* C2 as claimed: record_transaction makes one POST and its outcome is that
\* attempt's: a 2xx JSON body is returned unmodified, a transport failure gives
\* 503, a non-2xx status or any other exception gives the generic 500.
C2_BodyUnmodified ==
  last.kind = "record" =>
    LET up == last.upstream
    IN /\ last.posts = 1
       /\ up.kind = "request_error" => last.resp = Unavailable503
       /\ (Answered2xx(up) /\ "doc" \in DOMAIN up.body)
            => last.resp = [status |-> 200, json |-> up.body.doc]
       /\ (up.kind = "response" /\ ~Answered2xx(up)) => last.resp = RecordInternal500
       /\ (Answered2xx(up) /\ "doc" \notin DOMAIN up.body) => last.resp = RecordInternal500

\* C2 as amended: one POST, no retry; a 2xx JSON body that is a SaleReceipt is
\* returned with its four receipt fields unchanged and nothing else, any other
\* 2xx JSON body is a 500; a transport failure gives 503; a non-2xx status or an
\* undecodable 2xx body gives the generic 500.
C2_ForwardOutcome ==
  last.kind = "record" =>
    LET up == last.upstream
    IN /\ last.posts = 1
       /\ up.kind = "request_error" => last.resp = Unavailable503
       /\ (Answered2xx(up) /\ "doc" \in DOMAIN up.body /\ IsReceipt(up.body.doc))
            => /\ last.resp.status = 200
               /\ DOMAIN last.resp.json.fields = {"productID", "price", "timestamp", "txID"}
               /\ \A f \in DOMAIN last.resp.json.fields :
                    last.resp.json.fields[f] = up.body.doc.fields[f]
       /\ (Answered2xx(up) /\ "doc" \in DOMAIN up.body /\ ~IsReceipt(up.body.doc))
            => last.resp.status = 500
       /\ (up.kind = "response" /\ ~Answered2xx(up)) => last.resp = RecordInternal500
       /\ (Answered2xx(up) /\ "doc" \notin DOMAIN up.body) => last.resp = RecordInternal500

C2_Witness ==
  /\ last.kind = "record"
  /\ last.upstream.kind = "response"
  /\ last.upstream.status_code = 201
  /\ "doc" \in DOMAIN last.upstream.body
  /\ IsReceipt(last.upstream.body.doc)
  /\ "blockNumber" \in DOMAIN last.upstream.body.doc.fields
  /\ last.resp.status = 200
  /\ "blockNumber" \notin DOMAIN last.resp.json.fields

\* C3: the first chat call of a user id returns the greeting whatever the message,
\* and no later call of that user id returns the greeting.
C3_GreetingGate ==
  last.kind = "chat" => ((last.resp = [status |-> 200, reply |-> Greeting]) <=> last.first)

C3_Witness ==
  /\ last.kind = "chat"
  /\ ~last.first
  /\ greetings[last.user_id] = 1
  /\ last.message = <<"plan", "5", "day", "wildlife">>
  /\ last.resp.status = 200
  /\ last.resp.reply # Greeting

\* C4: every chat call completes with a {reply} value, whatever the user id, the
\* message, the knowledge base (a place record with missing fields included) and
\* the language model's outcome; no error becomes an HTTP error.
C4_ChatAlwaysReplies ==
  last.kind = "chat" => (last.resp.status = 200 /\ "reply" \in DOMAIN last.resp)

LoweredMessage == [i \in DOMAIN last.message |-> lower(last.message[i])]

\* the itinerary intent triggered for an already greeted user
ItineraryAnswered ==
  /\ last.kind = "chat"
  /\ ~last.first
  /\ \/ \E i \in DOMAIN LoweredMessage : LoweredMessage[i] = "itinerary"
     \/ \E i, j \in DOMAIN LoweredMessage :
          i < j /\ LoweredMessage[i] = "plan" /\ LoweredMessage[j] = "day"

Named(interest) == \E i \in DOMAIN LoweredMessage : LoweredMessage[i] = interest

\* the place lists of the interests named, in interest-map order; "nature" when none
Candidates ==
  IF ~(Named("nature") \/ Named("wildlife") \/ Named("pilgrimage"))
    THEN <<"netarhat", "patratu", "hundru">>
    ELSE (IF Named("nature") THEN <<"netarhat", "patratu", "hundru">> ELSE <<>>)
           \o (IF Named("wildlife") THEN <<"betla">> ELSE <<>>)
           \o (IF Named("pilgrimage") THEN <<"deoghar">> ELSE <<>>)

RECURSIVE SplitBlocks(_)
\* the blocks of a reply: its parts between blank lines (none for an empty reply)
SplitBlocks(reply) ==
  LET breaks == {i \in 1..(Len(reply) - 1) : reply[i] = "\n" /\ reply[i + 1] = "\n"}
  IN IF reply = <<>> THEN <<>>
     ELSE IF breaks = {} THEN <<reply>>
     ELSE LET b == CHOOSE i \in breaks : \A j \in breaks : i <= j
          IN <<SubSeq(reply, 1, b - 1)>> \o SplitBlocks(SubSeq(reply, b + 2, Len(reply)))

\* a field of a place as the knowledge base holds it, "N/A" when it does not
FieldOf(place, f) ==
  LET holds == {i \in DOMAIN places : places[i].key = place /\ f \in DOMAIN places[i].value}
  IN IF holds = {} THEN <<"N/A">> ELSE places[CHOOSE i \in holds : TRUE].value[f]

BlockFor(place) ==
  <<"PIN", capitalize(place), "-">> \o FieldOf(place, "description")
    \o <<"\n", "Best time:">> \o FieldOf(place, "best_time")
    \o <<"\n", "Activities:">> \o FieldOf(place, "activities")

\* C5: an itinerary for an already greeted user with extracted day count d is
\* exactly d day blocks joined by a blank line, block i (0-based) built from
\* candidates[i mod len(candidates)].
C5_ItineraryBlocks ==
  ItineraryAnswered =>
    LET d == extract_days(LoweredMessage)
    IN /\ last.resp.status = 200
       /\ SplitBlocks(last.resp.reply)
            = [n \in 1..d |-> BlockFor(Candidates[((n - 1) % Len(Candidates)) + 1])]

C5_Witness ==
  /\ ItineraryAnswered
  /\ last.message = <<"plan", "5", "day", "wildlife">>
  /\ Len(SplitBlocks(last.resp.reply)) = 5
  /\ \A i \in 1..5 : SplitBlocks(last.resp.reply)[i][2] = "Betla"

\* C6: every day block of an itinerary reply contains its header "Day N", N
\* running from 1 to the day count in block order.
C6_DayHeaders ==
  ItineraryAnswered =>
    LET blocks == SplitBlocks(last.resp.reply)
    IN \A n \in DOMAIN blocks :
         \E k \in 1..(Len(blocks[n]) - 1) :
           blocks[n][k] = "Day" /\ blocks[n][k + 1] = FormatInt(n)

\* the response text is the sentinel between nothing but whitespace
IsSentinelText(text) ==
  \E i \in DOMAIN text :
    /\ text[i] = "OUT_OF_CONTEXT"
    /\ \A j \in DOMAIN text \ {i} : text[j] \in {" ", "\n"}

FixedReplies ==
  {OutOfContextReply, CouldNotCompleteReply, GeminiErrorReply, Greeting, NoPlacesReply}

GeminiAnswered == last.kind = "chat" /\ last.gemini.kind = "response"

\* C7 as claimed: whenever the completion reason is not the normal stop the reply
\* is the fixed "couldn't complete" message, for every response text.
C7_AnyTextNotStop ==
  (GeminiAnswered /\ last.gemini.finish_reason # "STOP")
    => last.resp.reply = CouldNotCompleteReply

\* C7 as amended: whenever the completion reason is not the normal stop and the
\* trimmed text is not the out-of-context sentinel, the reply is the fixed
\* "couldn't complete" message; a sentinel text gives the fixed redirect message
\* whatever the completion reason; the model's text is returned only when the
\* completion reason is the normal stop.
C7_NotStopUnlessSentinel ==
  GeminiAnswered =>
    /\ (last.gemini.finish_reason # "STOP" /\ ~IsSentinelText(last.gemini.text))
         => last.resp.reply = CouldNotCompleteReply
    /\ IsSentinelText(last.gemini.text) => last.resp.reply = OutOfContextReply
    /\ last.resp.reply \notin FixedReplies => last.gemini.finish_reason = "STOP"

C7_Witness ==
  /\ GeminiAnswered
  /\ last.gemini.finish_reason = "MAX_TOKENS"
  /\ last.gemini.text = <<"a", " ", "a">>
  /\ last.resp.reply = CouldNotCompleteReply

\* C8: verify_transaction maps every upstream failure to one condition, in this
\* precedence: transport failure 503; non-2xx response 502 carrying the upstream
\* body; 2xx body that is not JSON 500 "bad upstream response"; any other
\* unexpected failure the generic 500.
C8_VerifyFailureClasses ==
  last.kind = "verify" =>
    LET up == last.upstream
    IN /\ up.kind = "request_error" => last.resp = Unavailable503
       /\ (up.kind = "response" /\ ~Answered2xx(up))
            => /\ last.resp.status = 502
               /\ last.resp.detail[Len(last.resp.detail)] = up.body.text
       /\ (Answered2xx(up) /\ "doc" \notin DOMAIN up.body) => last.resp = VerifyNotJson500
       /\ (/\ Answered2xx(up)
           /\ "doc" \in DOMAIN up.body
           /\ up.body.doc.type = "array"
           /\ up.body.doc.items # <<>>
           /\ up.body.doc.items[1].type # "dict") => last.resp = VerifyInternal500
       /\ (Answered2xx(up) /\ "doc" \in DOMAIN up.body /\ up.body.doc.type # "array")
            => last.resp.status = 500

C8_Witness ==
  /\ last.kind = "verify"
  /\ last.upstream.kind = "response"
  /\ last.upstream.status_code = 500
  /\ last.upstream.body.text = "<html>"
  /\ last.resp.status = 502

\* C9: of the chat requests handled concurrently for one unseen user id, exactly
\* one returns the greeting and the others go on to content processing.
C9_OneGreetingPerUser ==
  /\ \A u \in Users : greetings[u] = (IF u \in chatted THEN 1 ELSE 0)
  /\ \A r \in Reqs : pc[r] = "gemini" => greetings[held[r].user_id] = 1

C9_Witness ==
  \E u \in Users :
    /\ greetings[u] = 1
    /\ \E r1, r2 \in Reqs :
         /\ r1 # r2
         /\ pc[r1] = "gemini" /\ held[r1].user_id = u
         /\ pc[r2] = "gemini" /\ held[r2].user_id = u

\* C10: the greeted-user set only grows; only the first chat call of a user id
\* changes it, adding that id; later chat calls and record_transaction,
\* verify_transaction, get_products and log_activity leave it unchanged; it is at
\* every point the set of user ids that have made a chat call.
C10_GreetedSetFrame ==
  /\ [](greeted_users = chatted)
  /\ [][ /\ greeted_users \subseteq greeted_users'
         /\ greeted_users' # greeted_users =>
              /\ last'.kind = "chat"
              /\ last'.first
              /\ last'.user_id \notin greeted_users
              /\ greeted_users' = greeted_users \cup {last'.user_id}
         /\ (last' # last /\ last'.kind \in {"record", "verify", "products", "log"})
              => greeted_users' = greeted_users
         /\ (last' # last /\ last'.kind = "chat" /\ ~last'.first)
              => greeted_users' = greeted_users
         /\ (pc' # pc) => greeted_users' = greeted_users ]_vars

C10_Witness ==
  /\ greeted_users = Users
  /\ last.kind = "verify"
  /\ \E r \in Reqs : pc[r] = "post"

====
